---- MODULE Spec2Model ----
(***************************************************************************)
(* A model of track-pages-read (src/index.js): the TrackPagesRead class,   *)
(* the IndexedDB databases it reads and writes through idb, the JavaScript *)
(* job queue that orders the continuations of its async methods, and the   *)
(* throttled scroll listener.                                              *)
(*                                                                         *)
(* Strings that are keys of the object store are sequences of UTF-16 code  *)
(* units, because IndexedDB orders string keys by code unit and            *)
(* getAllByPath depends on that order.                                     *)
(***************************************************************************)
EXTENDS Integers, Sequences, FiniteSets, TLC

VARIABLES
    clock,      \* the last value Date.now() returned, in milliseconds
    databases,  \* the origin's IndexedDB databases, by name
    trackers,   \* the TrackPagesRead instances: their private fields
    calls,      \* every call of an async method, in call order, with its position
    jobs,       \* the microtask queue: the calls whose awaited #db promise has settled
    page,       \* the window: its scroll offset, scroll events and timer ids
    listeners,  \* the scroll listeners trackScroll added: the state of each throttle closure
    timers,     \* the timers that setTimeout started and that are still to fire
    dispatch,   \* the listeners the scroll event being dispatched has still to call
    trace       \* what each call of a throttled function and each timer did, in order

scrollVars == <<page, listeners, timers, dispatch, trace>>

vars == <<clock, databases, trackers, calls, jobs, page, listeners, timers, dispatch, trace>>

----------------------------------------------------------------------------
(* Bounds of the model. *)

MaxClock == 2
MaxCalls == 3
MaxSharedCalls == 2
MaxConfigCalls == 2
MaxRangeCalls == 1
MaxKeyLen == 3
MaxTime == 4
MaxEvents == 3
MaxOpenCalls == 2
MaxTwoEvents == 2
MaxTwoTime == 3
MaxMarkCalls == 3
MaxRejectedCalls == 2

----------------------------------------------------------------------------
(* Values of the program. *)

DefaultDbName == "track-pages-read"
DefaultDbVersion == 1
DefaultStoreName == "paths"

MaxCodeUnit == 65535

\* The pathname callers pass: "/b ?#", a path with a space, a '?' and a '#'.
Paths == {<<47, 98, 32, 63, 35>>}

\* The pathname argument when the caller leaves it out (the default, null).
NullPath == <<-1>>

\* window.location.pathname of the page the script runs in: "/b".
LocationPathname == <<47, 98>>

Trackers == {"tracker1", "tracker2"}
DbNames == {DefaultDbName, "reconfigured-db"}
StoreNames == {DefaultStoreName, "custom-store"}
Versions == {1, 2}

\* What db.get resolves with is kept as a set: the value of the record, or
\* nothing (undefined) when the key has no record. JavaScript's truthiness of it:
\* undefined and 0 are falsy.
Truthy(got) == got # {} /\ got # {0}

\* The results of isRead: null, or new Date(result).
NullResult == [kind |-> "null", time |-> 0]
NewDate(v) == [kind |-> "Date", time |-> v]

\* #db before the first #openDB. Later it is the promise of openDB: pending,
\* fulfilled with a connection (open) or rejected with an error.
NullDb == [state |-> "null", name |-> "", version |-> 0, error |-> ""]

\* A database that was never opened: no version, no object stores.
NoDatabase == [version |-> 0, stores |-> <<>>]

\* The page: the height of the viewport and of the document, in one unit, and
\* the scroll offsets the viewport can have in that document.
Page == [innerHeight |-> 1, scrollHeight |-> 2]
ScrollYs == 0..(Page.scrollHeight - Page.innerHeight)

\* The thresholds passed to trackScroll, as fractions: 0.5, which the page is
\* scrolled to exactly at the top, and the default 0.8.
DefaultThreshold == [num |-> 4, den |-> 5]
Thresholds == {[num |-> 1, den |-> 2], DefaultThreshold}

\* The frequencies passed to trackScroll, in milliseconds.
Frequencies == {1, 2}

\* The window before anything scrolled: at the top, no scroll event due, no
\* scroll event dispatched and no timer started yet.
NewPage == [scrollY |-> 0, scrolled |-> FALSE, events |-> 0, timeouts |-> 0]

----------------------------------------------------------------------------
(* Keys and key ranges of the object store (IndexedDB's key order). *)

Min(a, b) == IF a <= b THEN a ELSE b

\* a sorts before b: strings compare code unit by code unit, a proper prefix first.
KeyLess(a, b) ==
    \/ \E i \in 1..Min(Len(a), Len(b)) :
          /\ a[i] < b[i]
          /\ \A j \in 1..(i - 1) : a[j] = b[j]
    \/ /\ Len(a) < Len(b)
       /\ \A j \in 1..Len(a) : a[j] = b[j]

\* IDBKeyRange.bound(lower, upper): both ends included.
KeyRangeBound(lower, upper) == [lower |-> lower, upper |-> upper]

KeyRangeIncludes(range, key) ==
    /\ ~KeyLess(key, range.lower)
    /\ ~KeyLess(range.upper, key)

\* The keys of a set in key order, as the cursor visits them.
RECURSIVE KeyOrder(_)
KeyOrder(keys) ==
    IF keys = {} THEN <<>>
    ELSE LET first == CHOOSE k \in keys : \A other \in keys \ {k} : KeyLess(k, other)
         IN  <<first>> \o KeyOrder(keys \ {first})

\* CursorAll with cursor.continue() called before the first yield: the first
\* record is passed over.
CursorAllAfterFirst(store) ==
    LET order == KeyOrder(DOMAIN store)
    IN  [n \in 1..(Len(order) - 1) |->
            [pathname |-> order[n + 1], date |-> NewDate(store[order[n + 1]])]]

\* The records a cursor opened on a store visits: all of them, or those of a range.
CursorAll(store) ==
    LET order == KeyOrder(DOMAIN store)
    IN  [n \in 1..Len(order) |-> [pathname |-> order[n], date |-> NewDate(store[order[n]])]]

CursorRange(store, range) ==
    LET order == KeyOrder({k \in DOMAIN store : KeyRangeIncludes(range, k)})
    IN  [n \in 1..Len(order) |-> [pathname |-> order[n], date |-> NewDate(store[order[n]])]]

----------------------------------------------------------------------------
(* The TrackPagesRead class. *)

\* setConfig(config): a field left out of config reads as "" or 0 here.
ConfigValues ==
    [dbName : DbNames \cup {""}, dbVersion : Versions \cup {0}, storeName : StoreNames \cup {""}]

SetConfigFields(tr, config) ==
    [tr EXCEPT !.dbName = IF config.dbName = "" THEN @ ELSE config.dbName,
               !.dbVersion = IF config.dbVersion = 0 THEN @ ELSE config.dbVersion,
               !.storeName = IF config.storeName = "" THEN @ ELSE config.storeName]

\* The fields of a new instance before the constructor's setConfig. The fields
\* `opens` and `upgrades` are kept for the properties only: how often the
\* instance has called openDB, and how often its upgrade callback has run.
NewTracker ==
    [dbName |-> DefaultDbName, dbVersion |-> DefaultDbVersion,
     storeName |-> DefaultStoreName, db |-> NullDb, opens |-> 0, upgrades |-> 0]

\* #openDB with the database kept in #db once it is open, not the promise:
\* every call made before the open is answered asks the engine again.
OpenDBUntilOpen(tr) ==
    IF tr.db.state \in {"null", "pending"}
    THEN [tr EXCEPT !.db = [NullDb EXCEPT !.state = "pending", !.name = tr.dbName, !.version = tr.dbVersion],
                    !.opens = @ + 1]
    ELSE tr

\* #openDB with a rejected promise taken as no promise: the call after a failed
\* open asks the engine again.
OpenDBRetry(tr) ==
    IF tr.db.state \in {"null", "rejected"}
    THEN [tr EXCEPT !.db = [NullDb EXCEPT !.state = "pending", !.name = tr.dbName, !.version = tr.dbVersion],
                    !.opens = @ + 1]
    ELSE tr

\* #openDB(): the first call asks the engine to open the database and keeps the
\* promise; every later call returns the promise that is kept.
OpenDB(tr) ==
    IF tr.db.state = "null"
    THEN [tr EXCEPT !.db = [NullDb EXCEPT !.state = "pending", !.name = tr.dbName, !.version = tr.dbVersion],
                    !.opens = @ + 1]
    ELSE tr

\* pathname ?? window.location.pathname
PathOrLocation(pathname) == IF pathname = NullPath THEN LocationPathname ELSE pathname

\* No job is queued and no event is being dispatched: the event loop takes the
\* next task.
Idle == jobs = <<>> /\ dispatch = <<>>

Settled(db) == db.state \in {"open", "rejected"}

Finished(call) == call.pc \in {"done", "failed"}

\* A call of an async method up to its first await, which is of #openDB(): the
\* call is suspended on the promise, and is queued as a job at once when the
\* promise has settled already. The callers run no code between the settling of
\* the promise and the jobs of the calls that were suspended on it, so no call
\* is made while such a job is queued. The fields `after`, `configured` and
\* `handle` are kept for the properties only: the markAsRead calls that had
\* returned when this call was made, the database name the tracker was
\* configured with then, and which openDB call of the tracker made the promise
\* the call awaits.
NewCall(op, t, pathname, key, value) ==
    [op |-> op, t |-> t, arg |-> pathname, key |-> key, value |-> value,
     pc |-> "awaitDb", db |-> "", store |-> "", error |-> "",
     got |-> {}, result |-> NullResult, range |-> KeyRangeBound(<<>>, <<>>), rest |-> <<>>, out |-> <<>>,
     suspended |-> ~Settled(OpenDB(trackers[t]).db),
     handle |-> OpenDB(trackers[t]).opens,
     configured |-> trackers[t].dbName,
     after |-> {i \in 1..Len(calls) : calls[i].op = "markAsRead" /\ calls[i].pc = "done"}]

Await(call) ==
    /\ \A n \in 1..Len(jobs) : ~calls[jobs[n]].suspended
    /\ calls' = Append(calls, call)
    /\ trackers' = [trackers EXCEPT ![call.t] = OpenDB(@)]
    /\ jobs' = IF Settled(OpenDB(trackers[call.t]).db) THEN Append(jobs, Len(calls) + 1) ELSE jobs
    /\ UNCHANGED databases

\* The object store a call reaches through its tracker's database handle, and
\* whether the database has a store of the configured name.
Handle(call) == trackers[call.t].db
StoreName(call) == trackers[call.t].storeName
HasStore(call) == StoreName(call) \in DOMAIN databases[Handle(call).name].stores
Store(call) == databases[Handle(call).name].stores[StoreName(call)]

\* The call at the head of the job queue resumes after `await this.#openDB()`.
Resuming(i, op) ==
    /\ jobs # <<>>
    /\ i = Head(jobs)
    /\ calls[i].op = op
    /\ calls[i].pc = "awaitDb"

\* The awaited promise was rejected, or the database has no store of the
\* configured name and db.transaction throws: the call's promise is rejected.
Thrown(call) ==
    IF Handle(call).state = "rejected" THEN Handle(call).error
    ELSE IF ~HasStore(call) THEN "NotFoundError"
    ELSE ""

\* A method that catches what it awaits and throws an error of its own.
FailWrapped(call, error) == [call EXCEPT !.pc = "failed", !.error = "Error"]

Fail(call, error) == [call EXCEPT !.pc = "failed", !.error = error]

Target(call) == [call EXCEPT !.db = Handle(call).name, !.store = StoreName(call)]

setConfig(t, config) ==
    /\ trackers' = [trackers EXCEPT ![t] = SetConfigFields(@, config)]
    /\ UNCHANGED <<clock, databases, calls, jobs>>
    /\ UNCHANGED scrollVars

isRead(t, pathname) ==
    /\ Await(NewCall("isRead", t, pathname, NullPath, 0))
    /\ UNCHANGED clock
    /\ UNCHANGED scrollVars

\* db.get(storeName, key) opens a read-only transaction on the store and reads
\* the record of the key there.
isReadGet(i) ==
    /\ Resuming(i, "isRead")
    /\ LET call == calls[i]
           key == PathOrLocation(call.arg)
       IN  calls' = [calls EXCEPT ![i] =
               IF Thrown(call) # "" THEN Fail(call, Thrown(call))
               ELSE [Target(call) EXCEPT
                        !.pc = "get",
                        !.key = key,
                        !.got = IF key \in DOMAIN Store(call) THEN {Store(call)[key]}
                                ELSE {}]]
    /\ jobs' = Tail(jobs)
    /\ UNCHANGED <<clock, databases, trackers>>
    /\ UNCHANGED scrollVars

\* isReadReturn with `null` returned whatever was read.
isReadReturnNull(i) ==
    /\ Idle
    /\ i \in 1..Len(calls)
    /\ calls[i].pc = "get"
    /\ calls' = [calls EXCEPT ![i] = [@ EXCEPT !.pc = "done", !.result = NullResult]]
    /\ UNCHANGED <<clock, databases, trackers, jobs>>
    /\ UNCHANGED scrollVars

\* isReadReturn with `new Date(result ?? Date.now())` returned, a default
\* timestamp for a key that has no record.
isReadReturnDefault(i) ==
    /\ Idle
    /\ i \in 1..Len(calls)
    /\ calls[i].pc = "get"
    /\ LET result == calls[i].got
       IN  calls' = [calls EXCEPT ![i] =
               [@ EXCEPT !.pc = "done",
                         !.result = IF Truthy(result) THEN NewDate(CHOOSE v \in result : TRUE)
                                    ELSE NewDate(clock)]]
    /\ UNCHANGED <<clock, databases, trackers, jobs>>
    /\ UNCHANGED scrollVars

\* The get request succeeds: return result ? new Date(result) : null.
isReadReturn(i) ==
    /\ Idle
    /\ i \in 1..Len(calls)
    /\ calls[i].pc = "get"
    /\ LET result == calls[i].got
       IN  calls' = [calls EXCEPT ![i] =
               [@ EXCEPT !.pc = "done",
                         !.result = IF Truthy(result) THEN NewDate(CHOOSE v \in result : TRUE)
                                    ELSE NullResult]]
    /\ UNCHANGED <<clock, databases, trackers, jobs>>
    /\ UNCHANGED scrollVars

\* Date.now() returns `now`: the clock never runs backwards.
DateNow(now) ==
    /\ now >= clock
    /\ clock' = now

markAsRead(t, pathname, now) ==
    /\ DateNow(now)
    /\ Await(NewCall("markAsRead", t, pathname, PathOrLocation(pathname), now))
    /\ UNCHANGED scrollVars

\* Put with the store's add in place of put: a record that exists is kept.
PutAdd(store, key, value) ==
    [k \in DOMAIN store \cup {key} |-> IF k \in DOMAIN store THEN store[k] ELSE value]

\* The put of a store: the record of the key is written, whatever it was.
Put(store, key, value) ==
    [k \in DOMAIN store \cup {key} |-> IF k = key THEN value ELSE store[k]]

\* markAsReadPut with the key and the value kept in fields of the tracker that
\* every call overwrites, not in locals: the put writes what the latest
\* markAsRead call of the tracker left there.
markAsReadPutShared(i) ==
    /\ Resuming(i, "markAsRead")
    /\ LET call == calls[i]
           latest == CHOOSE n \in 1..Len(calls) :
                         /\ calls[n].op = "markAsRead" /\ calls[n].t = call.t
                         /\ \A x \in (n + 1)..Len(calls) :
                                ~(calls[x].op = "markAsRead" /\ calls[x].t = call.t)
       IN  IF Thrown(call) # ""
           THEN /\ calls' = [calls EXCEPT ![i] = Fail(call, Thrown(call))]
                /\ UNCHANGED databases
           ELSE /\ calls' = [calls EXCEPT ![i] = [Target(call) EXCEPT !.pc = "put"]]
                /\ databases' = [databases EXCEPT
                       ![Handle(call).name].stores[StoreName(call)] =
                           Put(@, calls[latest].key, calls[latest].value)]
    /\ jobs' = Tail(jobs)
    /\ UNCHANGED <<clock, trackers>>
    /\ UNCHANGED scrollVars

\* markAsReadPut with the put left out: the transaction writes nothing.
markAsReadPutNothing(i) ==
    /\ Resuming(i, "markAsRead")
    /\ calls' = [calls EXCEPT ![i] =
           IF Thrown(calls[i]) # "" THEN Fail(calls[i], Thrown(calls[i]))
           ELSE [Target(calls[i]) EXCEPT !.pc = "put"]]
    /\ jobs' = Tail(jobs)
    /\ UNCHANGED <<clock, databases, trackers>>
    /\ UNCHANGED scrollVars

\* db.put(storeName, value, key) opens a read-write transaction on the store
\* and writes the record.
markAsReadPut(i) ==
    /\ Resuming(i, "markAsRead")
    /\ LET call == calls[i]
       IN  IF Thrown(call) # ""
           THEN /\ calls' = [calls EXCEPT ![i] = Fail(call, Thrown(call))]
                /\ UNCHANGED databases
           ELSE /\ calls' = [calls EXCEPT ![i] = [Target(call) EXCEPT !.pc = "put"]]
                /\ databases' = [databases EXCEPT
                       ![Handle(call).name].stores[StoreName(call)] =
                           Put(@, call.key, call.value)]
    /\ jobs' = Tail(jobs)
    /\ UNCHANGED <<clock, trackers>>
    /\ UNCHANGED scrollVars

\* The transaction of the put is done.
markAsReadReturn(i) ==
    /\ Idle
    /\ i \in 1..Len(calls)
    /\ calls[i].pc = "put"
    /\ calls' = [calls EXCEPT ![i].pc = "done"]
    /\ UNCHANGED <<clock, databases, trackers, jobs>>
    /\ UNCHANGED scrollVars

\* An async generator runs nothing until its first next(): the call modelled is
\* that first next().
getAll(t) ==
    /\ Await(NewCall("getAll", t, NullPath, NullPath, 0))
    /\ UNCHANGED clock
    /\ UNCHANGED scrollVars

\* The read-only transaction and its cursor: the cursor visits the records the
\* store holds when the transaction is created, in key order.
OpenCursor(i, records) ==
    /\ calls' = [calls EXCEPT ![i] =
           IF Thrown(calls[i]) # "" THEN Fail(calls[i], Thrown(calls[i]))
           ELSE [Target(calls[i]) EXCEPT !.pc = "cursor", !.rest = records]]
    /\ jobs' = Tail(jobs)
    /\ UNCHANGED <<clock, databases, trackers>>
    /\ UNCHANGED scrollVars

getAllOpenCursor(i) ==
    /\ Resuming(i, "getAll")
    /\ OpenCursor(i, IF Thrown(calls[i]) # "" THEN <<>> ELSE CursorAll(Store(calls[i])))

\* while (cursor !== null) { yield ...; cursor = await cursor.continue(); }
\* One step is one record handed to the consumer, or the end of the sequence.
CursorStep(call) ==
    IF call.rest = <<>> THEN [call EXCEPT !.pc = "done"]
    ELSE [call EXCEPT !.out = Append(@, Head(call.rest)), !.rest = Tail(@)]

getAllNext(i) ==
    /\ Idle
    /\ i \in 1..Len(calls)
    /\ calls[i].op = "getAll"
    /\ calls[i].pc = "cursor"
    /\ calls' = [calls EXCEPT ![i] = CursorStep(@)]
    /\ UNCHANGED <<clock, databases, trackers, jobs>>
    /\ UNCHANGED scrollVars

\* IDBKeyRange.bound(pathname, pathname + '￿')
PathRange(pathname) == KeyRangeBound(pathname, pathname \o <<MaxCodeUnit>>)

getAllByPath(t, pathname) ==
    /\ Await([NewCall("getAllByPath", t, pathname, pathname, 0) EXCEPT
                 !.range = PathRange(pathname)])
    /\ UNCHANGED clock
    /\ UNCHANGED scrollVars

getAllByPathOpenCursor(i) ==
    /\ Resuming(i, "getAllByPath")
    /\ OpenCursor(i, IF Thrown(calls[i]) # "" THEN <<>>
                     ELSE CursorRange(Store(calls[i]), calls[i].range))

getAllByPathNext(i) ==
    /\ Idle
    /\ i \in 1..Len(calls)
    /\ calls[i].op = "getAllByPath"
    /\ calls[i].pc = "cursor"
    /\ calls' = [calls EXCEPT ![i] = CursorStep(@)]
    /\ UNCHANGED <<clock, databases, trackers, jobs>>
    /\ UNCHANGED scrollVars

----------------------------------------------------------------------------
(* The storage engine: IndexedDB behind idb's openDB. *)

\* The connections that are open on a database: this program closes none.
Connections(name) ==
    {t \in DOMAIN trackers : trackers[t].db.state = "open" /\ trackers[t].db.name = name}

\* The upgrade callback of #openDB: the store of the configured name is created
\* when the database has none of that name.
Upgrade(db, version, storeName) ==
    [version |-> version,
     stores |-> IF storeName \in DOMAIN db.stores THEN db.stores
                ELSE [s \in DOMAIN db.stores \cup {storeName} |->
                         IF s = storeName THEN <<>> ELSE db.stores[s]]]

\* The calls suspended on the #db promise of a tracker, in the order they awaited.
RECURSIVE Waiting(_, _)
Waiting(t, n) ==
    IF n = 0 THEN <<>>
    ELSE Waiting(t, n - 1) \o
         (IF calls[n].t = t /\ calls[n].pc = "awaitDb" THEN <<n>> ELSE <<>>)

\* The call in which a tracker made its open request: its first call.
Requested(t) ==
    CHOOSE n \in 1..Len(calls) :
        calls[n].t = t /\ \A x \in 1..(n - 1) : calls[x].t # t

\* The open requests for one database are answered in the order they were made.
FirstInQueue(t) ==
    \A u \in DOMAIN trackers \ {t} :
        (trackers[u].db.state = "pending" /\ trackers[u].db.name = trackers[t].db.name)
            => Requested(t) < Requested(u)

\* The open request of a tracker is answered. A database of a higher version
\* rejects it; one of the requested version is opened as it is; a new database,
\* or one of a lower version, is upgraded first, which has to wait for as long
\* as another connection to the database stays open.
openDBSettle(t) ==
    /\ Idle
    /\ trackers[t].db.state = "pending"
    /\ FirstInQueue(t)
    /\ LET handle == trackers[t].db
           db == databases[handle.name]
       IN  \/ /\ db.version > handle.version
              /\ trackers' = [trackers EXCEPT ![t].db.state = "rejected",
                                              ![t].db.error = "VersionError"]
              /\ UNCHANGED databases
           \/ /\ db.version = handle.version
              /\ trackers' = [trackers EXCEPT ![t].db.state = "open"]
              /\ UNCHANGED databases
           \/ /\ db.version < handle.version
              /\ Connections(handle.name) = {}
              /\ trackers' = [trackers EXCEPT ![t].db.state = "open", ![t].upgrades = @ + 1]
              /\ databases' = [databases EXCEPT
                     ![handle.name] = Upgrade(db, handle.version, trackers[t].storeName)]
    /\ jobs' = Waiting(t, Len(calls))
    /\ UNCHANGED <<clock, calls>>
    /\ UNCHANGED scrollVars

\* The engine cannot open the database at this time (the storage is not
\* readable, say) and rejects the open request of a tracker: nothing is
\* upgraded.
openDBFail(t) ==
    /\ Idle
    /\ trackers[t].db.state = "pending"
    /\ FirstInQueue(t)
    /\ trackers' = [trackers EXCEPT ![t].db.state = "rejected",
                                    ![t].db.error = "UnknownError"]
    /\ jobs' = Waiting(t, Len(calls))
    /\ UNCHANGED <<clock, databases, calls>>
    /\ UNCHANGED scrollVars

----------------------------------------------------------------------------
(* trackScroll: the scroll listener and the throttle around it. *)

Max(a, b) == IF a >= b THEN a ELSE b

\* (window.scrollY + window.innerHeight) / scrollHeight >= threshold
ScrollPctAtLeast(threshold) ==
    (page.scrollY + Page.innerHeight) * threshold.den >= threshold.num * Page.scrollHeight

\* Throttle with `lastCall = Date.now()` at the start: the window of the first
\* call is counted from the wrapping.
ThrottleFromNow(t, threshold, limit) ==
    [t |-> t, threshold |-> threshold, limit |-> limit, lastCall |-> clock, timeout |-> 0]

\* The closure #throttle(func, limit) returns, with the arguments of the
\* trackScroll call that made it: nothing was called yet, no timer is started.
Throttle(t, threshold, limit) ==
    [t |-> t, threshold |-> threshold, limit |-> limit, lastCall |-> 0, timeout |-> 0]

\* ScrollCheck without the test of the threshold: every check marks the page.
ScrollCheckAlways(l, now) ==
    Await(NewCall("markAsRead", listeners[l].t, NullPath, PathOrLocation(NullPath), now))

\* The function trackScroll passes to #throttle: markAsRead() for the
\* location's path when the page is scrolled to the threshold or further. The
\* promise markAsRead returns is dropped.
ScrollCheck(l, now) ==
    IF ScrollPctAtLeast(listeners[l].threshold)
    THEN Await(NewCall("markAsRead", listeners[l].t, NullPath, PathOrLocation(NullPath), now))
    ELSE UNCHANGED <<databases, trackers, calls, jobs>>

\* What the trace keeps of a call of the throttled function or of a timer: the
\* listener, the time, what was done with it, the arguments, and whether the
\* page was scrolled to the listener's threshold then.
Traced(l, now, kind, args) ==
    [listener |-> l, time |-> now, kind |-> kind, args |-> args,
     above |-> ScrollPctAtLeast(listeners[l].threshold)]

\* Leading with `lastCall` and `timeout` kept in fields of the instance, not in
\* variables of the closure: a run of func at once is remembered by every
\* throttled function of the page and clears every timer.
LeadingSharedState(l, now, args) ==
    /\ timers' = {}
    /\ listeners' = [n \in DOMAIN listeners |->
                         [listeners[n] EXCEPT !.timeout = 0, !.lastCall = now]]
    /\ trace' = Append(trace, Traced(l, now, "leading", args))
    /\ ScrollCheck(l, now)
    /\ UNCHANGED page

\* Leading without clearTimeout: `timeout` is set to null and the timer is left
\* to fire.
LeadingTimerKept(l, now, args) ==
    /\ listeners' = [listeners EXCEPT ![l].timeout = 0, ![l].lastCall = now]
    /\ trace' = Append(trace, Traced(l, now, "leading", args))
    /\ ScrollCheck(l, now)
    /\ UNCHANGED <<page, timers>>

\* Leading without `lastCall = now`: the run of func is not remembered.
LeadingNotRecorded(l, now, args) ==
    /\ timers' = {timer \in timers : timer.id # listeners[l].timeout}
    /\ listeners' = [listeners EXCEPT ![l].timeout = 0]
    /\ trace' = Append(trace, Traced(l, now, "leading", args))
    /\ ScrollCheck(l, now)
    /\ UNCHANGED page

\* now - lastCall has reached the limit: a timer that is started is cleared and
\* func runs at once.
Leading(l, now, args) ==
    /\ timers' = {timer \in timers : timer.id # listeners[l].timeout}
    /\ listeners' = [listeners EXCEPT ![l].timeout = 0, ![l].lastCall = now]
    /\ trace' = Append(trace, Traced(l, now, "leading", args))
    /\ ScrollCheck(l, now)
    /\ UNCHANGED page

\* Schedule with no timer started: `timeout` is set, and nothing will fire.
ScheduleNoTimer(l, now, args, remaining) ==
    /\ page' = [page EXCEPT !.timeouts = @ + 1]
    /\ listeners' = [listeners EXCEPT ![l].timeout = page.timeouts + 1]
    /\ trace' = Append(trace, Traced(l, now, "scheduled", args))
    /\ UNCHANGED <<databases, trackers, calls, jobs, timers>>

\* The limit is not reached and no timer is started: setTimeout starts one for
\* the rest of the limit, with the arguments of this call.
Schedule(l, now, args, remaining) ==
    /\ page' = [page EXCEPT !.timeouts = @ + 1]
    /\ timers' = timers \cup
           {[id |-> page.timeouts + 1, listener |-> l, due |-> now + remaining, args |-> args]}
    /\ listeners' = [listeners EXCEPT ![l].timeout = page.timeouts + 1]
    /\ trace' = Append(trace, Traced(l, now, "scheduled", args))
    /\ UNCHANGED <<databases, trackers, calls, jobs>>

\* The limit is not reached and a timer is started: the call does nothing.
Ignore(l, now, args) ==
    /\ trace' = Append(trace, Traced(l, now, "ignored", args))
    /\ UNCHANGED <<databases, trackers, calls, jobs, page, listeners, timers>>

\* Throttled without the test of `timeout`: every call inside the limit starts
\* a timer of its own.
ThrottledTimerPerCall(l, now, args) ==
    LET remaining == listeners[l].limit - (now - listeners[l].lastCall)
    IN  IF remaining <= 0 THEN Leading(l, now, args)
        ELSE Schedule(l, now, args, remaining)

\* The function #throttle returns, called with args when Date.now() is now.
Throttled(l, now, args) ==
    LET remaining == listeners[l].limit - (now - listeners[l].lastCall)
    IN  IF remaining <= 0 THEN Leading(l, now, args)
        ELSE IF listeners[l].timeout = 0 THEN Schedule(l, now, args, remaining)
        ELSE Ignore(l, now, args)

\* trackScroll(threshold, frequency) adds a scroll listener of its own to the
\* window.
trackScroll(t, threshold, frequency) ==
    /\ listeners' = Append(listeners, Throttle(t, threshold, frequency))
    /\ UNCHANGED <<clock, databases, trackers, calls, jobs, page, timers, dispatch, trace>>

\* The viewport is scrolled to another offset: the window will fire a scroll
\* event, one for all the scrolling since the last event.
scrollTo(y) ==
    /\ y # page.scrollY
    /\ page' = [page EXCEPT !.scrollY = y, !.scrolled = TRUE]
    /\ UNCHANGED <<clock, databases, trackers, calls, jobs, listeners, timers, dispatch, trace>>

\* The window fires the scroll event at the listeners it has now.
scrollEvent ==
    /\ Idle
    /\ page.scrolled
    /\ page' = [page EXCEPT !.scrolled = FALSE, !.events = @ + 1]
    /\ dispatch' = [n \in 1..Len(listeners) |-> [listener |-> n, event |-> page.events + 1]]
    /\ UNCHANGED <<clock, databases, trackers, calls, jobs, listeners, timers, trace>>

\* The event calls its next listener, once the jobs the listener before it
\* queued have run.
scrollListener(l, now) ==
    /\ jobs = <<>>
    /\ dispatch # <<>>
    /\ l = Head(dispatch).listener
    /\ DateNow(now)
    /\ Throttled(l, now, Head(dispatch).event)
    /\ dispatch' = Tail(dispatch)

\* timeoutCallback with the arguments kept in a variable of the closure that
\* every call overwrites: the timer runs func with the arguments of the latest
\* call.
timeoutCallbackLatestArgs(id, now) ==
    /\ Idle
    /\ \E timer \in timers :
          /\ timer.id = id
          /\ now >= timer.due
          /\ DateNow(now)
          /\ timers' = timers \ {timer}
          /\ listeners' = [listeners EXCEPT ![timer.listener].lastCall = now,
                                            ![timer.listener].timeout = 0]
          /\ LET latest == CHOOSE n \in 1..Len(trace) :
                     /\ trace[n].listener = timer.listener
                     /\ trace[n].kind \in {"scheduled", "ignored"}
                     /\ \A x \in (n + 1)..Len(trace) : trace[x].listener # timer.listener
             IN  trace' = Append(trace,
                     Traced(timer.listener, now, "trailing", trace[latest].args))
          /\ ScrollCheck(timer.listener, now)
    /\ UNCHANGED <<page, dispatch>>

\* timeoutCallback without the call of func: the timer resets the closure only.
timeoutCallbackResetOnly(id, now) ==
    /\ Idle
    /\ \E timer \in timers :
          /\ timer.id = id
          /\ now >= timer.due
          /\ DateNow(now)
          /\ timers' = timers \ {timer}
          /\ listeners' = [listeners EXCEPT ![timer.listener].lastCall = now,
                                            ![timer.listener].timeout = 0]
          /\ trace' = Append(trace, Traced(timer.listener, now, "trailing", timer.args))
    /\ UNCHANGED <<databases, trackers, calls, jobs, page, dispatch>>

\* The callback of setTimeout runs, no earlier than the timer is due.
timeoutCallback(id, now) ==
    /\ Idle
    /\ \E timer \in timers :
          /\ timer.id = id
          /\ now >= timer.due
          /\ DateNow(now)
          /\ timers' = timers \ {timer}
          /\ listeners' = [listeners EXCEPT ![timer.listener].lastCall = now,
                                            ![timer.listener].timeout = 0]
          /\ trace' = Append(trace, Traced(timer.listener, now, "trailing", timer.args))
          /\ ScrollCheck(timer.listener, now)
    /\ UNCHANGED <<page, dispatch>>

----------------------------------------------------------------------------
(* One tracker with the default configuration, on an origin with no database. *)

\* A page no scroll listener was added to.
NoScrolling ==
    /\ page = NewPage
    /\ listeners = <<>>
    /\ timers = {}
    /\ dispatch = <<>>
    /\ trace = <<>>

\* The calls the page's scripts make on the trackers.
Call ==
    \/ \E t \in DOMAIN trackers, pathname \in Paths \cup {NullPath} : isRead(t, pathname)
    \/ \E t \in DOMAIN trackers, pathname \in Paths \cup {NullPath}, now \in 1..MaxClock :
           markAsRead(t, pathname, now)
    \/ \E t \in DOMAIN trackers : getAll(t)
    \/ \E t \in DOMAIN trackers, pathname \in Paths \cup {LocationPathname} :
           getAllByPath(t, pathname)

\* The steps of the calls in progress and of the storage engine.
Step ==
    \/ \E t \in DOMAIN trackers : openDBSettle(t)
    \/ \E i \in 1..Len(calls) : isReadGet(i)
    \/ \E i \in 1..Len(calls) : isReadReturn(i)
    \/ \E i \in 1..Len(calls) : markAsReadPut(i)
    \/ \E i \in 1..Len(calls) : markAsReadReturn(i)
    \/ \E i \in 1..Len(calls) : getAllOpenCursor(i)
    \/ \E i \in 1..Len(calls) : getAllNext(i)
    \/ \E i \in 1..Len(calls) : getAllByPathOpenCursor(i)
    \/ \E i \in 1..Len(calls) : getAllByPathNext(i)

Init ==
    /\ clock = 1
    /\ databases = [name \in DbNames |-> NoDatabase]
    /\ trackers = [t \in {"tracker1"} |-> NewTracker]
    /\ calls = <<>>
    /\ jobs = <<>>
    /\ NoScrolling

Next ==
    \/ Len(calls) < MaxCalls /\ Call
    \/ Step

Spec == Init /\ [][Next]_vars

----------------------------------------------------------------------------
(* Two trackers with the default configuration on one origin. *)

InitShared ==
    /\ clock = 1
    /\ databases = [name \in DbNames |-> NoDatabase]
    /\ trackers = [t \in Trackers |-> NewTracker]
    /\ calls = <<>>
    /\ jobs = <<>>
    /\ NoScrolling

NextShared ==
    \/ Len(calls) < MaxSharedCalls /\ Call
    \/ Step

SpecShared == InitShared /\ [][NextShared]_vars

----------------------------------------------------------------------------
(* One tracker that is reconfigured at any time. *)

NextConfig ==
    \/ \E t \in DOMAIN trackers, config \in ConfigValues : setConfig(t, config)
    \/ Len(calls) < MaxConfigCalls /\ Call
    \/ Step

SpecConfig == Init /\ [][NextConfig]_vars

----------------------------------------------------------------------------
(* The scroll monitor: one tracker of the default configuration, whose        *)
(* trackScroll is called once, on a page that is scrolled.                   *)

\* The values Date.now() returns to a task that runs no earlier than `from`.
Nows(from) == from..Max(from, MaxTime)

NextScroll ==
    \/ /\ listeners = <<>>
       /\ \E t \in DOMAIN trackers, threshold \in Thresholds, frequency \in Frequencies :
              trackScroll(t, threshold, frequency)
    \/ /\ page.scrolled \/ page.events < MaxEvents
       /\ \E y \in ScrollYs : scrollTo(y)
    \/ scrollEvent
    \/ \E l \in 1..Len(listeners), now \in Nows(clock) : scrollListener(l, now)
    \/ \E timer \in timers : \E now \in Nows(Max(clock, timer.due)) :
           timeoutCallback(timer.id, now)
    \/ \E t \in DOMAIN trackers : openDBSettle(t)
    \/ \E i \in 1..Len(calls) : markAsReadPut(i)
    \/ \E i \in 1..Len(calls) : markAsReadReturn(i)

SpecScroll == Init /\ [][NextScroll]_vars

\* The event loop runs every task and job that is queued, the window fires the
\* timers that are due, and the storage engine answers every request.
SpecScrollFair ==
    /\ SpecScroll
    /\ WF_vars(\E l \in 1..Len(listeners), now \in Nows(clock) : scrollListener(l, now))
    /\ WF_vars(\E timer \in timers : \E now \in Nows(Max(clock, timer.due)) :
                   timeoutCallback(timer.id, now))
    /\ WF_vars(\E t \in DOMAIN trackers : openDBSettle(t))
    /\ WF_vars(\E i \in 1..Len(calls) : markAsReadPut(i))

----------------------------------------------------------------------------
(* The scroll monitor with trackScroll called twice on one tracker. The      *)
(* answers of the storage engine are left out here: the steps of the engine  *)
(* and of markAsRead after its await leave the listeners, the timers and the *)
(* trace as they are, and the steps of the listeners and timers wait for no  *)
(* answer, so every order of listener and timer steps that is possible with  *)
(* the engine answering is possible here.                                    *)

\* The listeners of the page, in the order trackScroll added them.
Listeners == {1, 2}

\* The values Date.now() returns to a task that runs no earlier than `from`.
NowsTwo(from) == from..Max(from, MaxTwoTime)

NextScrollTwo ==
    \/ /\ Len(listeners) < Cardinality(Listeners)
       /\ \E t \in DOMAIN trackers, threshold \in Thresholds, frequency \in Frequencies :
              trackScroll(t, threshold, frequency)
    \/ /\ page.scrolled \/ page.events < MaxTwoEvents
       /\ \E y \in ScrollYs : scrollTo(y)
    \/ scrollEvent
    \/ \E l \in 1..Len(listeners), now \in NowsTwo(clock) : scrollListener(l, now)
    \/ \E timer \in timers : \E now \in NowsTwo(Max(clock, timer.due)) :
           timeoutCallback(timer.id, now)

SpecScrollTwo == Init /\ [][NextScrollTwo]_vars

----------------------------------------------------------------------------
(* Two trackers of the default configuration that mark the location's path.  *)

NextMarks ==
    \/ /\ Len(calls) < MaxMarkCalls
       /\ \E t \in DOMAIN trackers, now \in 1..MaxClock : markAsRead(t, NullPath, now)
    \/ \E t \in DOMAIN trackers : openDBSettle(t)
    \/ \E i \in 1..Len(calls) : markAsReadPut(i)
    \/ \E i \in 1..Len(calls) : markAsReadReturn(i)

SpecMarks == InitShared /\ [][NextMarks]_vars

----------------------------------------------------------------------------
(* One tracker, constructed with any configuration of the default database,  *)
(* on an origin where earlier page loads have left that database in any      *)
(* state trackers of this class leave it in.                                 *)

\* The database as earlier trackers left it: never opened, opened by a tracker
\* of some version and store name, or opened by one and upgraded by another.
PriorDatabases ==
    {NoDatabase}
    \cup {Upgrade(NoDatabase, version, storeName) :
              version \in Versions, storeName \in StoreNames}
    \cup {Upgrade(Upgrade(NoDatabase, 1, first), 2, second) :
              first \in StoreNames, second \in StoreNames}

InitOpen ==
    /\ clock = 1
    /\ \E prior \in PriorDatabases :
           databases = [name \in DbNames |->
               IF name = DefaultDbName THEN prior ELSE NoDatabase]
    /\ \E config \in ConfigValues :
           /\ config.dbName = ""
           /\ trackers = [t \in {"tracker1"} |-> SetConfigFields(NewTracker, config)]
    /\ calls = <<>>
    /\ jobs = <<>>
    /\ NoScrolling

NextOpen ==
    \/ Len(calls) < MaxOpenCalls /\ Call
    \/ Step

SpecOpen == InitOpen /\ [][NextOpen]_vars

----------------------------------------------------------------------------------------------------------------------------------------
(* One tracker, constructed with the default configuration on an origin      *)
(* where earlier page loads have left the database in any state, whose       *)
(* database name or version is set anew at any time, with an engine that may *)
(* fail to open a database at one time and open it at another.               *)

\* setConfig({dbName}) and setConfig({dbVersion}).
Reconfigurations ==
    {config \in ConfigValues :
        /\ config.storeName = ""
        /\ (config.dbName = "") # (config.dbVersion = 0)}

InitRejected ==
    /\ clock = 1
    /\ \E prior \in PriorDatabases :
           databases = [name \in DbNames |->
               IF name = DefaultDbName THEN prior ELSE NoDatabase]
    /\ trackers = [t \in {"tracker1"} |-> NewTracker]
    /\ calls = <<>>
    /\ jobs = <<>>
    /\ NoScrolling

\* The calls of the four methods for the page the script runs on.
CallLocation ==
    \/ \E t \in DOMAIN trackers : isRead(t, NullPath)
    \/ \E t \in DOMAIN trackers, now \in 1..MaxClock : markAsRead(t, NullPath, now)
    \/ \E t \in DOMAIN trackers : getAll(t)
    \/ \E t \in DOMAIN trackers : getAllByPath(t, LocationPathname)

NextRejected ==
    \/ \E t \in DOMAIN trackers, config \in Reconfigurations : setConfig(t, config)
    \/ Len(calls) < MaxRejectedCalls /\ CallLocation
    \/ \E t \in DOMAIN trackers : openDBFail(t)
    \/ Step

SpecRejected == InitRejected /\ [][NextRejected]_vars

----------------------------------------------------------------------------
(* Properties of the read and write path, for one tracker. *)

IsCall(i, op) == i \in 1..Len(calls) /\ calls[i].op = op

Returned(i, op) == IsCall(i, op) /\ calls[i].pc = "done"

\* The path a call of isRead or markAsRead is about: the pathname passed, or
\* the location's when none was passed.
Asked(i) == IF calls[i].arg = NullPath THEN LocationPathname ELSE calls[i].arg

\* Two calls reached the same record: the same key of the same store of the
\* same database.
SameRecord(i, j) ==
    /\ calls[i].db # ""
    /\ calls[i].db = calls[j].db
    /\ calls[i].store = calls[j].store
    /\ Asked(i) = Asked(j)

SameStore(i, j) ==
    /\ calls[i].db # ""
    /\ calls[i].db = calls[j].db
    /\ calls[i].store = calls[j].store

\* No markAsRead of the record of m was called between the calls m and r.
NoMarkBetween(m, r) ==
    \A x \in (m + 1)..(r - 1) : ~(calls[x].op = "markAsRead" /\ Asked(x) = Asked(m))

\* C1: once markAsRead(P) has returned, an isRead(P) called afterwards on the
\* same configuration returns a Date and never null; and when no other
\* markAsRead(P) was called in between, the Date is the clock value that
\* markAsRead call read.
C1_IsReadAfterMarkAsRead ==
    \A r \in 1..Len(calls) : \A m \in calls[r].after :
        (Returned(r, "isRead") /\ SameRecord(m, r)) =>
            /\ calls[r].result.kind = "Date"
            /\ NoMarkBetween(m, r) => calls[r].result.time = calls[m].value

\* C1 happens: markAsRead at clock 2 returned, and the isRead called after it
\* returned the Date of that clock value, for the location's path and for a
\* path passed by the caller.
C1_Witness ==
    \E r \in 1..Len(calls) : \E m \in calls[r].after :
        /\ Returned(r, "isRead")
        /\ SameRecord(m, r)
        /\ calls[m].value = 2
        /\ calls[r].result = NewDate(2)

\* C2: isRead(P) returns null unless a markAsRead call for the path P was made
\* before it on the same store; what is written for other paths, and what is
\* read by isRead, getAll and getAllByPath, never makes P read.
C2_NeverMarkedIsNull ==
    \A r \in 1..Len(calls) :
        (Returned(r, "isRead") /\ calls[r].result # NullResult) =>
            \E m \in 1..(r - 1) : IsCall(m, "markAsRead") /\ SameRecord(m, r)

\* C2 happens: isRead returned null for one path after markAsRead had returned
\* for another path and a getAll had been consumed.
C2_Witness ==
    \E r \in 1..Len(calls) : \E m \in calls[r].after : \E g \in 1..(r - 1) :
        /\ Returned(r, "isRead")
        /\ calls[r].result = NullResult
        /\ Asked(m) # Asked(r)
        /\ calls[g].op \in {"getAll", "getAllByPath"}
        /\ calls[g].pc = "done"

\* The record of a call's key in the store the call reached, as the store is now.
Stored(i) == databases[calls[i].db].stores[calls[i].store][Asked(i)]

\* No markAsRead of the record of m was called after m.
LastMark(m) ==
    \A x \in (m + 1)..Len(calls) : ~(calls[x].op = "markAsRead" /\ Asked(x) = Asked(m))

\* C3: when markAsRead(P) is called again after an earlier markAsRead(P) has
\* returned, the second call records a timestamp that is not less than the
\* first; the store then holds the second timestamp alone for P, and isRead(P)
\* called after the second call returns the second timestamp.
C3_SecondMarkOverwrites ==
    \A m1 \in 1..Len(calls) : \A m2 \in 1..Len(calls) :
        (Returned(m2, "markAsRead") /\ m1 \in calls[m2].after /\ SameRecord(m1, m2)) =>
            /\ calls[m2].value >= calls[m1].value
            /\ LastMark(m2) => Stored(m2) = calls[m2].value
            /\ \A r \in 1..Len(calls) :
                   (Returned(r, "isRead") /\ m2 \in calls[r].after /\ SameRecord(m2, r)
                        /\ NoMarkBetween(m2, r))
                       => calls[r].result = NewDate(calls[m2].value)

\* C3 happens: a path marked at clock 1 and, after that returned, at clock 2,
\* and an isRead called after both that returned the Date of clock 2.
C3_Witness ==
    \E m1, m2, r \in 1..Len(calls) :
        /\ Returned(m2, "markAsRead") /\ m1 \in calls[m2].after /\ SameRecord(m1, m2)
        /\ calls[m1].value = 1 /\ calls[m2].value = 2
        /\ Returned(r, "isRead") /\ m2 \in calls[r].after /\ SameRecord(m2, r)
        /\ calls[r].result = NewDate(2)

\* The pathnames a consumed sequence has yielded.
Yielded(g) == {calls[g].out[n].pathname : n \in 1..Len(calls[g].out)}

\* Every markAsRead called before the call g had returned when g was called.
AllMarksReturnedBefore(g) ==
    \A m \in 1..(g - 1) : calls[m].op = "markAsRead" => m \in calls[g].after

\* C4: when the markAsRead calls made so far have all returned, a getAll()
\* consumed to its end yields exactly one entry for each distinct path
\* written, and none for another path; on an empty store it yields none.
C4_GetAllYieldsWrittenPaths ==
    \A g \in 1..Len(calls) :
        (Returned(g, "getAll") /\ AllMarksReturnedBefore(g)) =>
            LET written == {Asked(m) : m \in calls[g].after}
            IN  /\ Yielded(g) = written
                /\ Len(calls[g].out) = Cardinality(written)

\* C4 happens: getAll yielded two entries after two paths were written.
C4_Witness ==
    \E g \in 1..Len(calls) :
        /\ Returned(g, "getAll") /\ AllMarksReturnedBefore(g)
        /\ Cardinality(calls[g].after) = 2
        /\ Len(calls[g].out) = 2

\* C4's empty case happens: getAll on the store nothing was written to.
C4_WitnessEmpty ==
    \E g \in 1..Len(calls) :
        /\ Returned(g, "getAll") /\ calls[g].out = <<>> /\ calls[g].after = {}
        /\ \E r \in 1..(g - 1) : calls[r].op = "isRead"

\* Neither of two markAsRead calls had returned when the other was made.
Concurrent(m1, m2) == m1 \notin calls[m2].after /\ m2 \notin calls[m1].after

\* C6: markAsRead calls for distinct paths that were in progress together, in
\* whatever order their steps interleave, each leave their record: a getAll()
\* called after they returned yields exactly one entry for each of their paths.
C6_ConcurrentMarksAllStored ==
    \A g \in 1..Len(calls) : \A m1 \in calls[g].after : \A m2 \in calls[g].after :
        (Returned(g, "getAll") /\ Concurrent(m1, m2) /\ SameStore(m1, g) /\ SameStore(m2, g)
             /\ Asked(m1) # Asked(m2))
            => /\ {Asked(m1), Asked(m2)} \subseteq Yielded(g)
               /\ \A n1, n2 \in 1..Len(calls[g].out) :
                      calls[g].out[n1].pathname = calls[g].out[n2].pathname => n1 = n2

\* C6 happens: two markAsRead calls for distinct paths, both made while the
\* database was still being opened, and a getAll after both that yielded two
\* entries.
C6_Witness ==
    \E g \in 1..Len(calls) : \E m1 \in calls[g].after : \E m2 \in calls[g].after :
        /\ Returned(g, "getAll")
        /\ Concurrent(m1, m2)
        /\ calls[m1].suspended /\ calls[m2].suspended
        /\ Asked(m1) # Asked(m2)
        /\ Len(calls[g].out) = 2

----------------------------------------------------------------------------
(* Properties of two trackers on one database, and of reconfiguration. *)

\* The only markAsRead call that reached its record.
OnlyMark(m) ==
    \A x \in 1..Len(calls) : (IsCall(x, "markAsRead") /\ SameRecord(x, m)) => x = m

\* C7: a record written through one tracker is read through another tracker of
\* the same configuration: after markAsRead(P) returned on one instance,
\* isRead(P) on the other returns a Date, the written one when nothing else
\* wrote P; and the second instance's open of the database that exists already
\* leaves the store and its records as they are.
C7_SharedBetweenInstances ==
    /\ \A r \in 1..Len(calls) : \A m \in calls[r].after :
           (Returned(r, "isRead") /\ SameRecord(m, r) /\ calls[m].t # calls[r].t) =>
               /\ calls[r].result.kind = "Date"
               /\ OnlyMark(m) => calls[r].result.time = calls[m].value
    /\ \A m \in 1..Len(calls) :
           (Returned(m, "markAsRead") /\ OnlyMark(m)) =>
               /\ calls[m].store \in DOMAIN databases[calls[m].db].stores
               /\ Asked(m) \in DOMAIN databases[calls[m].db].stores[calls[m].store]
               /\ Stored(m) = calls[m].value

\* C7 happens: markAsRead returned on one tracker; the other tracker, whose
\* database was not open yet, then opened it for an isRead of the same path,
\* which returned the written Date.
C7_Witness ==
    \E r \in 1..Len(calls) : \E m \in calls[r].after :
        /\ Returned(r, "isRead")
        /\ SameRecord(m, r)
        /\ calls[m].t # calls[r].t
        /\ calls[r].suspended
        /\ calls[r].result = NewDate(calls[m].value)

\* C8: after setConfig has named another database, the next operation opens
\* and uses that database: every call made when the tracker's open had been
\* answered already, and that reaches a store, reaches it in the database the
\* tracker was configured with when the call was made.
C8_ReconfiguredDatabaseIsUsed ==
    \A i \in 1..Len(calls) :
        (calls[i].db # "" /\ ~calls[i].suspended) => calls[i].db = calls[i].configured

----------------------------------------------------------------------------
(* getAllByPath over stores of any keys: a tracker of the default             *)
(* configuration on a database that earlier markAsRead calls have filled.     *)

\* The code units keys are made of here: '/', 'a' and the highest one.
CodeUnits == {47, 97, MaxCodeUnit}

\* Every string of at most MaxKeyLen code units, the empty string included.
RangeKeys == UNION {[1..n -> CodeUnits] : n \in 0..MaxKeyLen}

\* The stores of at most two records.
RangeStores == {[k \in {a, b} |-> 1] : a, b \in RangeKeys} \cup {<<>>}

InitRange ==
    /\ clock = 1
    /\ \E store \in RangeStores :
           databases = [name \in DbNames |->
               IF name = DefaultDbName
               THEN [version |-> DefaultDbVersion,
                     stores |-> [s \in {DefaultStoreName} |-> store]]
               ELSE NoDatabase]
    /\ trackers = [t \in {"tracker1"} |-> NewTracker]
    /\ calls = <<>>
    /\ jobs = <<>>
    /\ NoScrolling

NextRange ==
    \/ /\ Len(calls) < MaxRangeCalls
       /\ \E t \in DOMAIN trackers, pathname \in RangeKeys : getAllByPath(t, pathname)
    \/ \E t \in DOMAIN trackers : openDBSettle(t)
    \/ \E i \in 1..Len(calls) : getAllByPathOpenCursor(i)
    \/ \E i \in 1..Len(calls) : getAllByPathNext(i)

SpecRange == InitRange /\ [][NextRange]_vars

\* String.prototype.startsWith
StartsWith(key, prefix) ==
    /\ Len(prefix) <= Len(key)
    /\ \A n \in 1..Len(prefix) : key[n] = prefix[n]

\* C5: a getAllByPath(prefix) consumed to its end has yielded exactly the
\* stored paths that start with prefix, each once: the path equal to prefix,
\* every path prefix is a leading substring of, and no other path.
C5_GetAllByPathYieldsPrefixed ==
    \A g \in 1..Len(calls) :
        Returned(g, "getAllByPath") =>
            /\ Yielded(g) = {k \in DOMAIN Store(calls[g]) : StartsWith(k, calls[g].arg)}
            /\ Len(calls[g].out) = Cardinality(Yielded(g))

----------------------------------------------------------------------------
(* Properties of the scroll monitor and of the throttle. *)

\* A trace entry that is a call of the throttled function.
Invocation(entry) == entry.kind \in {"leading", "scheduled", "ignored"}

\* The page is scrolled to the threshold of a listener, or further.
Above(l) == l \in 1..Len(listeners) /\ ScrollPctAtLeast(listeners[l].threshold)

\* The latest thing the throttles did is a call of listener l by a scroll
\* event, with the page scrolled to its threshold.
CalledAbove(l) ==
    /\ trace # <<>>
    /\ trace[Len(trace)].listener = l
    /\ Invocation(trace[Len(trace)])
    /\ trace[Len(trace)].above

\* The store of the listener's tracker has a record for the location's path.
Written(l) ==
    /\ l \in 1..Len(listeners)
    /\ LET tr == trackers[listeners[l].t]
       IN  /\ tr.storeName \in DOMAIN databases[tr.dbName].stores
           /\ LocationPathname \in DOMAIN databases[tr.dbName].stores[tr.storeName]

\* C9: when a scroll event has called the listener that trackScroll added and the
\* page stays scrolled to the listener's threshold or further from then on, a
\* record for the location's path is eventually written, whether the call ran
\* the check at once or left it to the timer.
C9_ScrolledPastThresholdIsMarked ==
    [](CalledAbove(1) /\ []Above(1) => <>Written(1))

\* The calls of a listener that arrive after the call i and inside the window
\* that the call i opened.
Burst(i) ==
    {j \in (i + 1)..Len(trace) :
        /\ trace[j].listener = trace[i].listener
        /\ Invocation(trace[j])
        /\ trace[j].time < trace[i].time + listeners[trace[i].listener].limit}

\* The calls of the listener after the call i and after its window.
AfterBurst(i) ==
    {j \in (i + 1)..Len(trace) :
        /\ trace[j].listener = trace[i].listener
        /\ Invocation(trace[j])
        /\ j \notin Burst(i)}

\* The runs of func by a timer that a call of the burst started.
Deferred(i) ==
    {k \in (i + 1)..Len(trace) :
        /\ trace[k].listener = trace[i].listener
        /\ trace[k].kind = "trailing"
        /\ \E j \in Burst(i) : trace[j].args = trace[k].args}

\* C9 happens: a call ran the check at once with the page short of the
\* threshold; a call inside its window started the timer
\* with the page scrolled to the threshold; the timer's check found the page
\* still there, and the record is written.
C9_Witness ==
    \E i, n, k \in 1..Len(trace) :
        /\ trace[i].kind = "leading" /\ ~trace[i].above
        /\ n \in Burst(i)
        /\ trace[n].kind = "scheduled" /\ trace[n].above
        /\ k \in Deferred(i)
        /\ trace[k].above
        /\ Written(trace[n].listener)
        /\ \A c \in 1..Len(calls) : calls[c].value = trace[k].time

TimerStarted(l) == \E timer \in timers : timer.listener = l

\* Of N >= 2 calls inside one window, the first of which ran func at once, no
\* other runs func at once; their timer runs func at most once, and no earlier
\* than one window after the first call; and when no call came after the
\* window, func has run exactly once more when the timer is gone.
OneLeadingOneDeferred ==
    \A i \in 1..Len(trace) :
        (trace[i].kind = "leading" /\ Burst(i) # {}) =>
            LET l == trace[i].listener
            IN  /\ \A j \in Burst(i) : trace[j].kind # "leading"
                /\ Cardinality({j \in Burst(i) : trace[j].kind = "scheduled"}) = 1
                /\ Cardinality(Deferred(i)) <= 1
                /\ \A k \in Deferred(i) : trace[k].time >= trace[i].time + listeners[l].limit
                /\ (AfterBurst(i) = {} /\ ~TimerStarted(l)) => Cardinality(Deferred(i)) = 1

\* Calls arrived inside the window of a call that ran func at once, no call
\* came after the window, and their timer has not run func yet.
DeferredDue ==
    \E i \in 1..Len(trace) :
        /\ trace[i].kind = "leading"
        /\ Burst(i) # {}
        /\ AfterBurst(i) = {}
        /\ Deferred(i) = {}

\* C10: N >= 2 calls of the throttled function inside one window run func
\* exactly once at once, at the first call, and exactly once deferred, not N
\* times: the deferred run is no earlier than one window after the first, and
\* it does come, unless a call after the window runs func in its place.
C10_BurstRunsOnceAndOnceDeferred ==
    /\ []OneLeadingOneDeferred
    /\ DeferredDue ~> ~DeferredDue

\* C10 happens: three calls inside one window, the first ran func at once, and
\* the timer ran func once, one window after the first call.
C10_Witness ==
    \E i \in 1..Len(trace) :
        /\ trace[i].kind = "leading"
        /\ Cardinality(Burst(i)) = 2
        /\ AfterBurst(i) = {}
        /\ Cardinality(Deferred(i)) = 1
        /\ \E k \in Deferred(i) :
               trace[k].time = trace[i].time + listeners[trace[i].listener].limit

\* A trace entry that is a run of func, at once or by the timer.
Execution(entry) == entry.kind \in {"leading", "trailing"}

\* The runs a and b of func by one listener, a before b.
Executions(a, b) ==
    /\ a < b
    /\ Execution(trace[a])
    /\ Execution(trace[b])
    /\ trace[a].listener = trace[b].listener

\* C11: any two runs of func by one throttled function are at least the limit
\* apart, whatever the calls and however late the timers fire.
C11_ExecutionsOneWindowApart ==
    \A a, b \in 1..Len(trace) :
        Executions(a, b) => trace[b].time - trace[a].time >= listeners[trace[a].listener].limit

\* C11 happens: a call ran func at once, a timer started inside its window ran
\* func later than it was due, and the next call, exactly one limit after that
\* run, ran func at once.
C11_Witness ==
    \E i, a, b \in 1..Len(trace) :
        /\ trace[i].kind = "leading"
        /\ a \in Deferred(i)
        /\ trace[a].time > trace[i].time + listeners[trace[i].listener].limit
        /\ Executions(a, b)
        /\ trace[b].kind = "leading"
        /\ trace[b].time - trace[a].time = listeners[trace[a].listener].limit

\* The runs of func by the listener of the call j that come after the call.
RunsAfter(j) ==
    {k \in (j + 1)..Len(trace) :
        trace[k].listener = trace[j].listener /\ Execution(trace[k])}

\* A call that did not run func at once.
Suppressed(j) == j \in 1..Len(trace) /\ trace[j].kind \in {"scheduled", "ignored"}

\* Some call that did not run func at once has no run of func after it yet.
SuppressedDue == \E j \in 1..Len(trace) : Suppressed(j) /\ RunsAfter(j) = {}

\* C12: every call of the throttled function that does not run func at once is
\* followed by a run of func, by the timer or by a later call, and that run is
\* at a later time than the call; timers that are started do fire.
C12_SuppressedCallIsRunLater ==
    /\ [](\A j \in 1..Len(trace) : Suppressed(j) =>
              \A k \in RunsAfter(j) : trace[k].time > trace[j].time)
    /\ SuppressedDue ~> ~SuppressedDue

\* C12 happens: a call inside the window of a run started the timer, another
\* call arrived when the window was over and before the timer fired, and that
\* call ran func at once and cleared the timer.
C12_Witness ==
    \E i, j, b \in 1..Len(trace) :
        /\ trace[i].kind = "leading"
        /\ j \in Burst(i)
        /\ trace[j].kind = "scheduled"
        /\ b \in RunsAfter(j)
        /\ trace[b].kind = "leading"
        /\ Deferred(i) = {}
        /\ timers = {}
        /\ ~SuppressedDue

----------------------------------------------------------------------------
(* Properties of the database handle. *)

\* C13: once the open of a tracker has succeeded, the database it opened has an
\* object store of the tracker's store name, whatever state the database was
\* in before: not there, of a lower version, or of the same version with other
\* object stores.
C13_StoreExistsAfterOpen ==
    \A t \in DOMAIN trackers :
        trackers[t].db.state = "open" =>
            trackers[t].storeName \in DOMAIN databases[trackers[t].db.name].stores

\* C14: a tracker that is not reconfigured calls openDB at most once, however
\* many calls of isRead, markAsRead, getAll and getAllByPath are made and
\* however many of them before the open is answered; its upgrade callback runs
\* at most once, and every call awaits the promise of that one openDB call.
C14_OpenIsMemoized ==
    /\ \A t \in DOMAIN trackers : trackers[t].opens <= 1 /\ trackers[t].upgrades <= 1
    /\ \A i \in 1..Len(calls) : calls[i].handle = 1

\* C14 happens: two calls made before the open was answered and one made
\* after it, of different methods, all returned, with one openDB call and one
\* run of the upgrade callback.
C14_Witness ==
    \E i, j, k \in 1..Len(calls) :
        /\ i < j /\ j < k
        /\ calls[i].suspended /\ calls[j].suspended /\ ~calls[k].suspended
        /\ calls[i].op # calls[j].op
        /\ \A n \in {i, j, k} : calls[n].pc = "done" /\ calls[n].handle = 1
        /\ trackers[calls[i].t].opens = 1
        /\ trackers[calls[i].t].upgrades = 1

----------------------------------------------------------------------------
(* Properties of the first call of a throttled function. *)

\* The first call of a listener's throttled function.
FirstCall(j) ==
    /\ j \in 1..Len(trace)
    /\ \A n \in 1..(j - 1) : trace[n].listener # trace[j].listener

\* The first call was the last thing the listener's throttle did.
OnlyCall(j) ==
    /\ FirstCall(j)
    /\ \A n \in (j + 1)..Len(trace) : trace[n].listener # trace[j].listener

\* C15 as stated: the first call of a throttled function runs func at once,
\* whatever Date.now() returns and whatever the limit is, and starts no timer.
C15_FirstCallRunsAtOnce ==
    \A j \in 1..Len(trace) :
        FirstCall(j) =>
            /\ trace[j].kind = "leading"
            /\ OnlyCall(j) => ~TimerStarted(trace[j].listener)

\* C15, amended: the first call of a throttled function runs func at once and
\* starts no timer when Date.now() has reached the limit; when Date.now() is
\* still below the limit the first call runs nothing and starts a timer that
\* is due when Date.now() reaches the limit.
C15_FirstCallRunsAtOnceFromLimit ==
    \A j \in 1..Len(trace) :
        FirstCall(j) =>
            LET l == trace[j].listener
            IN  IF trace[j].time >= listeners[l].limit
                THEN /\ trace[j].kind = "leading"
                     /\ OnlyCall(j) => ~TimerStarted(l)
                ELSE /\ trace[j].kind = "scheduled"
                     /\ OnlyCall(j) =>
                            \E timer \in timers :
                                timer.listener = l /\ timer.due = listeners[l].limit

\* C15 happens: the first call came when Date.now() was exactly the limit, ran
\* func at once and started no timer.
C15_Witness ==
    \E j \in 1..Len(trace) :
        /\ OnlyCall(j)
        /\ trace[j].time = listeners[trace[j].listener].limit
        /\ trace[j].kind = "leading"
        /\ timers = {}

----------------------------------------------------------------------------
(* Properties of the timer of a throttled function. *)

\* The call that started the timer whose run of func is the trace entry k: the
\* latest call of the listener before k that started a timer.
Scheduler(k) ==
    CHOOSE j \in 1..(k - 1) :
        /\ trace[j].listener = trace[k].listener
        /\ trace[j].kind = "scheduled"
        /\ \A n \in (j + 1)..(k - 1) :
               ~(trace[n].listener = trace[k].listener /\ trace[n].kind = "scheduled")

\* The calls between the start of the timer and its run that did nothing.
IgnoredBefore(k) ==
    {n \in (Scheduler(k) + 1)..(k - 1) :
        trace[n].listener = trace[k].listener /\ trace[n].kind = "ignored"}

\* C16: the timer runs func with the arguments of the call that started it,
\* the first call that did not run func at once, and with the arguments of
\* none of the calls that came while the timer was started.
C16_DeferredRunHasSchedulersArgs ==
    \A k \in 1..Len(trace) :
        trace[k].kind = "trailing" =>
            /\ \E j \in 1..(k - 1) :
                   trace[j].listener = trace[k].listener /\ trace[j].kind = "scheduled"
            /\ trace[k].args = trace[Scheduler(k)].args
            /\ \A n \in IgnoredBefore(k) : trace[k].args # trace[n].args

\* C16 happens: two calls with different arguments did not run func at once,
\* and the timer ran func with the arguments of the first of them.
C16_Witness ==
    \E k \in 1..Len(trace) :
        /\ trace[k].kind = "trailing"
        /\ \E j \in 1..(k - 1) :
               trace[j].listener = trace[k].listener /\ trace[j].kind = "scheduled"
        /\ IgnoredBefore(k) # {}
        /\ trace[k].args = trace[Scheduler(k)].args
        /\ \A n \in IgnoredBefore(k) : trace[n].args > trace[k].args

\* The timers of a listener's throttled function that are still to fire.
TimersOf(l) == {timer \in timers : timer.listener = l}

\* The trace entries of a kind.
Entries(kind) == {n \in 1..Len(trace) : trace[n].kind = kind}

\* The latest thing the throttle of a listener did.
LatestOf(l) ==
    CHOOSE n \in 1..Len(trace) :
        /\ trace[n].listener = l
        /\ \A x \in (n + 1)..Len(trace) : trace[x].listener # l

\* C17: a throttled function has at most one timer that is still to fire, the
\* one its `timeout` names; only the calls that find no timer start one; a
\* call that runs func at once leaves no timer, and the timer it cleared never
\* runs func: between the start of a timer and its run no call ran func.
C17_AtMostOneTimer ==
    /\ \A l \in 1..Len(listeners) :
           /\ Cardinality(TimersOf(l)) <= 1
           /\ \A timer \in TimersOf(l) : timer.id = listeners[l].timeout
           /\ TimersOf(l) = {} => listeners[l].timeout = 0
           /\ (\E n \in 1..Len(trace) : trace[n].listener = l) =>
                  /\ trace[LatestOf(l)].kind = "leading" => TimersOf(l) = {}
                  /\ trace[LatestOf(l)].kind = "ignored" => TimersOf(l) # {}
    /\ page.timeouts = Cardinality(Entries("scheduled"))
    /\ \A k \in Entries("trailing") :
           \A n \in (Scheduler(k) + 1)..(k - 1) :
               trace[n].listener = trace[k].listener => trace[n].kind = "ignored"

\* C17 happens: a call ran func at once, a call inside its window started the
\* timer, and a call after the window, which came before the timer fired, ran
\* func at once and left no timer; one timer was started in all and it never
\* ran func.
C17_Witness ==
    \E i, j, b \in 1..Len(trace) :
        /\ i < j /\ j < b
        /\ trace[i].kind = "leading"
        /\ trace[j].kind = "scheduled"
        /\ trace[b].kind = "leading"
        /\ trace[b].time >= trace[i].time + listeners[trace[i].listener].limit
        /\ Entries("trailing") = {}
        /\ b = Len(trace)
        /\ timers = {}
        /\ listeners[trace[b].listener].timeout = 0
        /\ page.timeouts = 1

----------------------------------------------------------------------------
(* Properties of the scroll monitor's threshold. *)

\* The runs of the check that found the page scrolled to the threshold.
ChecksAbove == {k \in 1..Len(trace) : Execution(trace[k]) /\ trace[k].above}

\* C18: the scroll monitor calls markAsRead exactly in the runs of its check,
\* at once or by the timer, that find the page scrolled to the threshold or
\* further at that moment, for the location's path and with the time of that
\* run; while every run of the check has found the page short of the
\* threshold, no call is made and no record is written.
C18_NoMarkBelowThreshold ==
    /\ Len(calls) = Cardinality(ChecksAbove)
    /\ \A c \in 1..Len(calls) :
           /\ calls[c].op = "markAsRead"
           /\ Asked(c) = LocationPathname
           /\ \E k \in ChecksAbove : trace[k].time = calls[c].value
    /\ ChecksAbove = {} =>
           \A name \in DbNames : \A store \in DOMAIN databases[name].stores :
               databases[name].stores[store] = <<>>

\* C18 happens: the check ran at once and by the timer with the page short of
\* the threshold and marked nothing, and then ran with the page scrolled to
\* the threshold and made the one call there is.
C18_Witness ==
    \E a, b, k \in 1..Len(trace) :
        /\ a < b /\ b < k
        /\ trace[a].kind = "leading" /\ ~trace[a].above
        /\ trace[b].kind = "trailing" /\ ~trace[b].above
        /\ ChecksAbove = {k}
        /\ Len(calls) = 1
        /\ calls[1].pc = "done"
        /\ Written(trace[k].listener)

----------------------------------------------------------------------------
(* Properties of several scroll monitors on one page. *)

\* The runs of func by the listener of the call j before the call, and the time
\* of the latest of them: 0 when there is none.
RunsBefore(j) ==
    {k \in 1..(j - 1) : trace[k].listener = trace[j].listener /\ Execution(trace[k])}

LastRunBefore(j) ==
    IF RunsBefore(j) = {} THEN 0
    ELSE trace[CHOOSE k \in RunsBefore(j) : \A x \in RunsBefore(j) : x <= k].time

\* A call of the listener l before the entry j started a timer, and the
\* listener has not run func since.
TimerDueBefore(l, j) ==
    \E n \in 1..(j - 1) :
        /\ trace[n].listener = l
        /\ trace[n].kind = "scheduled"
        /\ \A k \in (n + 1)..(j - 1) : ~(trace[k].listener = l /\ Execution(trace[k]))

\* What the throttled function does with the call j when nothing but the
\* earlier calls and timers of its own listener counts.
OwnGate(j) ==
    IF listeners[trace[j].listener].limit - (trace[j].time - LastRunBefore(j)) <= 0
    THEN "leading"
    ELSE IF ~TimerDueBefore(trace[j].listener, j) THEN "scheduled"
    ELSE "ignored"

\* The calls of the listeners by the scroll event e.
CallsBy(e) == {j \in 1..Len(trace) : Invocation(trace[j]) /\ trace[j].args = e}

\* C19: each trackScroll call adds a listener with a throttle of its own. Every
\* scroll event calls each listener the page has then once, in the order they
\* were added; what a listener's throttle does with a call depends on the
\* earlier calls and timers of that listener alone, and its timer is started
\* and cleared by its own calls alone.
C19_ListenersAreIndependent ==
    /\ \A j \in 1..Len(trace) : Invocation(trace[j]) => trace[j].kind = OwnGate(j)
    /\ \A l \in 1..Len(listeners) :
           /\ TimersOf(l) # {} <=> TimerDueBefore(l, Len(trace) + 1)
           /\ Cardinality(TimersOf(l)) <= 1
    /\ \A e \in 1..page.events : \A i, j \in CallsBy(e) :
           trace[i].listener = trace[j].listener => i = j

\* C19 happens: one scroll event ran the check of both listeners at once; at
\* the next event the first listener, inside its window, started its timer
\* while the second, whose window is shorter, ran its check at once, and the
\* timer of the first is still to fire.
C19_Witness ==
    \E a, b, c, d \in 1..Len(trace) :
        /\ a < b /\ b < c /\ c < d
        /\ trace[a].kind = "leading" /\ trace[b].kind = "leading"
        /\ trace[a].args = trace[b].args
        /\ trace[a].listener # trace[b].listener
        /\ trace[c].kind = "scheduled" /\ trace[d].kind = "leading"
        /\ trace[c].args = trace[d].args
        /\ trace[c].listener # trace[d].listener
        /\ d = Len(trace)
        /\ TimersOf(trace[c].listener) # {}
        /\ TimersOf(trace[d].listener) = {}

----------------------------------------------------------------------------
(* Properties of the stored timestamp. *)

\* The markAsRead calls whose put has written its record.
Put_(i) == IsCall(i, "markAsRead") /\ calls[i].pc \in {"put", "done"}

\* C20: the timestamp stored for a path never decreases, whichever trackers
\* the markAsRead calls are made through and however they interleave: it is
\* never below the time of a call that has written it; and when every call has
\* returned it is the time of the latest call.
C20_StoredTimestampIsLatest ==
    /\ \A m \in 1..Len(calls) : Put_(m) => Stored(m) >= calls[m].value
    /\ (calls # <<>> /\ \A m \in 1..Len(calls) : Returned(m, "markAsRead")) =>
           Stored(Len(calls)) = calls[Len(calls)].value

----------------------------------------------------------------------------
(* Properties of a rejected open. *)

\* The promise a tracker keeps in #db was rejected.
Rejected(t) == trackers[t].db.state = "rejected"

\* A tracker has been called.
Called(t) == \E n \in 1..Len(calls) : calls[n].t = t

\* The call that made a tracker's open request does not get past its await
\* when the request was rejected, and fails with the error of the rejection;
\* the tracker has called openDB once.
TriggerFails(t) ==
    LET call == calls[Requested(t)]
    IN  /\ call.pc \in {"awaitDb", "failed"}
        /\ call.pc = "failed" => call.error = trackers[t].db.error
        /\ call.handle = 1
        /\ trackers[t].opens = 1

\* C21: when the engine rejects the open request of a tracker, the isRead,
\* markAsRead, getAll or getAllByPath call that made the request fails with
\* the error of the rejection, openDB is not called again for it, and no
\* database is changed in the step that rejects the request or in any step
\* after it.
C21_RejectedOpenFailsTheCall ==
    /\ [](\A t \in DOMAIN trackers : (Rejected(t) /\ Called(t)) => TriggerFails(t))
    /\ [][\A t \in DOMAIN trackers : Rejected(t)' => databases' = databases]_vars

\* C21 happens: a markAsRead call made the open request, the engine rejected
\* it, and the call has failed with the error of the rejection, with no
\* record of its path in the store it was to write to.
C21_Witness ==
    \E t \in DOMAIN trackers :
        /\ Rejected(t)
        /\ Called(t)
        /\ LET call == calls[Requested(t)]
               db == databases[trackers[t].db.name]
           IN  /\ call.op = "markAsRead"
               /\ call.suspended
               /\ call.pc = "failed"
               /\ call.error = trackers[t].db.error
               /\ \A store \in DOMAIN db.stores : call.key \notin DOMAIN db.stores[store]

\* Every call of a tracker that has finished has failed with the error the
\* tracker's open request was rejected with, and all calls awaited the promise
\* of the tracker's one openDB call.
AllFail(t) ==
    /\ trackers[t].opens = 1
    /\ \A i \in 1..Len(calls) :
           calls[i].t = t =>
               /\ calls[i].handle = 1
               /\ calls[i].pc \in {"awaitDb", "failed"}
               /\ calls[i].pc = "failed" => calls[i].error = trackers[t].db.error

\* The engine would accept an open request of the tracker's configuration.
WouldOpen(t) == databases[trackers[t].dbName].version <= trackers[t].dbVersion

====
